---- MODULE Spec2Model ----
(***************************************************************************)
(* scspell: the token decomposer, the per-token spell check, the           *)
(* interactive correction engine and the file driver of                    *)
(* scspell_lib/__init__.py.                                                *)
(*                                                                         *)
(* Text is a sequence of one-byte characters; a character is a string.     *)
(* Offsets are 0-based as in the source, so byte k of a buffer is          *)
(* data[k+1].                                                              *)
(***************************************************************************)
EXTENDS Integers, Sequences, FiniteSets, TLC

\* ------------------------------------------------------------------------
\* Program constants
\* ------------------------------------------------------------------------
CONTEXT_SIZE == 4
LEN_THRESHOLD == 3
CTRL_C == "^C"
CTRL_D == "^D"
CTRL_Z == "^Z"

\* ------------------------------------------------------------------------
\* Bounds of the model
\* ------------------------------------------------------------------------
MaxTokLen == 4
MaxFiles == 2
MaxReplacements == 1

\* ------------------------------------------------------------------------
\* Characters (ASCII, as the byte-string regex classes of Python 2 see them)
\* ------------------------------------------------------------------------
LowerLetters ==
  << "a","b","c","d","e","f","g","h","i","j","k","l","m",
     "n","o","p","q","r","s","t","u","v","w","x","y","z" >>

UpperLetters ==
  << "A","B","C","D","E","F","G","H","I","J","K","L","M",
     "N","O","P","Q","R","S","T","U","V","W","X","Y","Z" >>

DigitChars == {"0","1","2","3","4","5","6","7","8","9"}

HexChars == DigitChars \cup {"a","b","c","d","e","f","A","B","C","D","E","F"}

IsLowerChar(c) == \E i \in 1..26 : LowerLetters[i] = c

IsUpperChar(c) == \E i \in 1..26 : UpperLetters[i] = c

\* [_\d] : the separator class of us_regex
IsUsChar(c) == c = "_" \/ c \in DigitChars

\* \w without re.UNICODE / re.LOCALE : [a-zA-Z0-9_]
IsWordChar(c) == IsLowerChar(c) \/ IsUpperChar(c) \/ IsUsChar(c)

LowerChar(c) ==
  IF IsUpperChar(c)
    THEN LowerLetters[CHOOSE i \in 1..26 : UpperLetters[i] = c]
    ELSE c

\* str.lower()
lower(s) == [i \in 1..Len(s) |-> LowerChar(s[i])]

\* str.isupper(): at least one cased character and no lower-case one
isupper(s) ==
  /\ \E i \in 1..Len(s) : IsUpperChar(s[i])
  /\ \A i \in 1..Len(s) : ~IsLowerChar(s[i])

\* ''.join(parts) and sum(lists, [])
RECURSIVE join(_)
join(parts) ==
  IF parts = << >> THEN << >> ELSE Head(parts) \o join(Tail(parts))

\* s[a:b] with 0-based, end-exclusive offsets, both within 0..len(s)
Slice(s, a, b) == IF b <= a THEN << >> ELSE SubSeq(s, a + 1, b)

\* ------------------------------------------------------------------------
\* decompose_token
\* ------------------------------------------------------------------------
\* us_regex.split(token): the pieces between maximal runs of [_\d],
\* empty pieces at either end included
RECURSIVE us_split_from(_, _, _, _)
us_split_from(s, i, cur, inRun) ==
  IF i > Len(s) THEN << cur >>
  ELSE IF IsUsChar(s[i])
    THEN IF inRun
           THEN us_split_from(s, i + 1, cur, TRUE)
           ELSE << cur >> \o us_split_from(s, i + 1, << >>, TRUE)
    ELSE us_split_from(s, i + 1, Append(cur, s[i]), FALSE)

us_regex_split(token) == us_split_from(token, 1, << >>, FALSE)

\* camel_word_regex.split(part), pattern ([A-Z][a-z]*): the text before a
\* match, the captured match, the text between matches (empty when two
\* matches are adjacent), and the trailing text
RECURSIVE camel_split_from(_, _, _, _)
camel_split_from(s, i, cur, inMatch) ==
  IF i > Len(s)
    THEN IF inMatch THEN << cur, << >> >> ELSE << cur >>
  ELSE IF IsUpperChar(s[i])
    THEN IF inMatch
           THEN << cur, << >> >> \o camel_split_from(s, i + 1, << s[i] >>, TRUE)
           ELSE << cur >> \o camel_split_from(s, i + 1, << s[i] >>, TRUE)
  ELSE IF IsLowerChar(s[i])
    THEN camel_split_from(s, i + 1, Append(cur, s[i]), inMatch)
  ELSE IF inMatch
    THEN << cur >> \o camel_split_from(s, i + 1, << s[i] >>, FALSE)
    ELSE camel_split_from(s, i + 1, Append(cur, s[i]), FALSE)

\* a split that loses the capital-letter boundaries
camel_word_regex_no_split(part) == << part >>

camel_word_regex_split(part) == camel_split_from(part, 1, << >>, FALSE)

\* a test of line 149 that never takes the constant branch
looks_like_constant_never(us_parts) == FALSE

\* the test of line 149: ''.join(us_parts).isupper()
looks_like_constant(us_parts) == isupper(join(us_parts))

\* a decomposition that forgets the st.lower() of line 156
decompose_token_keeps_case(token) ==
  LET us_parts == us_regex_split(token)
      subtokens ==
        IF looks_like_constant(us_parts)
          THEN us_parts
          ELSE join([k \in 1..Len(us_parts) |->
                       camel_word_regex_split(us_parts[k])])
  IN  SelectSeq(subtokens, LAMBDA st : st /= << >>)

decompose_token(token) ==
  LET us_parts == us_regex_split(token)
      subtokens ==
        IF looks_like_constant(us_parts)
          THEN us_parts
          ELSE join([k \in 1..Len(us_parts) |->
                       camel_word_regex_split(us_parts[k])])
      kept == SelectSeq(subtokens, LAMBDA st : st /= << >>)
  IN  [k \in 1..Len(kept) |-> lower(kept[k])]

\* every item kept, duplicates too
make_unique_keeps_all(items) == items

\* make_unique(items): first occurrences, order kept
RECURSIVE make_unique(_)
make_unique(items) ==
  IF items = << >> THEN << >>
  ELSE LET init == make_unique(SubSeq(items, 1, Len(items) - 1))
           x    == items[Len(items)]
       IN  IF \E k \in 1..Len(init) : init[k] = x THEN init ELSE Append(init, x)

\* ------------------------------------------------------------------------
\* Regular expressions of the scan
\* ------------------------------------------------------------------------
NoMatch == [found |-> FALSE, start |-> 0, end |-> 0]

\* a search that starts at the head of the buffer whatever pos is
token_regex_search_from_start(data, pos) ==
  LET starts == {i \in 0..(Len(data) - 1) : IsWordChar(data[i + 1])}
  IN  IF starts = {} THEN NoMatch
      ELSE LET st   == CHOOSE i \in starts : \A j \in starts : i <= j
               ends == {e \in (st + 1)..Len(data) :
                          e = Len(data) \/ ~IsWordChar(data[e + 1])}
           IN  [found |-> TRUE, start |-> st,
                end |-> CHOOSE e \in ends : \A f \in ends : e <= f]

\* token_regex.search(data, pos), pattern \w+ : the leftmost word character
\* at or after pos, extended greedily
token_regex_search(data, pos) ==
  LET starts == {i \in pos..(Len(data) - 1) : IsWordChar(data[i + 1])}
  IN  IF starts = {} THEN NoMatch
      ELSE LET st   == CHOOSE i \in starts : \A j \in starts : i <= j
               ends == {e \in (st + 1)..Len(data) :
                          e = Len(data) \/ ~IsWordChar(data[e + 1])}
           IN  [found |-> TRUE, start |-> st,
                end |-> CHOOSE e \in ends : \A f \in ends : e <= f]

\* a hex_regex whose digit class lacks the lower-case letters
hex_regex_match_upper_only(token) ==
  /\ Len(token) >= 3
  /\ token[1] = "0"
  /\ token[2] = "x"
  /\ token[3] \in DigitChars \cup {"A", "B", "C", "D", "E", "F"}

\* hex_regex.match(token), pattern 0x[0-9a-fA-F]+ anchored at the start only
hex_regex_match(token) ==
  /\ Len(token) >= 3
  /\ token[1] = "0"
  /\ token[2] = "x"
  /\ token[3] \in HexChars

\* s.startswith(t)
StartsWith(s, t) == Len(s) >= Len(t) /\ SubSeq(s, 1, Len(t)) = t

\* The replacement argument of re.sub is a template: sre_parse.parse_template
\* (Python 2) processes its backslash escapes.  \\ is one backslash, \n and
\* the other ESCAPES letters are control characters, \g<0> is the match,
\* a group reference to a group the pattern lacks (the escaped token has no
\* groups) and a backslash at the end of the text raise sre_constants.error,
\* any other escaped character stays as written.
TemplateEscapes == {"a", "b", "f", "n", "r", "t", "v"}

EscapeChar(c) ==
  CASE c = "n" -> "\n"
    [] c = "r" -> "\r"
    [] c = "t" -> "\t"
    [] c = "f" -> "\f"
    [] c = "a" -> "^G"
    [] c = "b" -> "^H"
    [] c = "v" -> "^K"

TemplateError == [ok |-> FALSE, text |-> << >>]

RECURSIVE expand_template(_, _, _)
expand_template(repl, i, m) ==
  IF i > Len(repl) THEN [ok |-> TRUE, text |-> << >>]
  ELSE IF repl[i] /= "\\"
    THEN LET r == expand_template(repl, i + 1, m)
         IN  [ok |-> r.ok, text |-> << repl[i] >> \o r.text]
  ELSE IF i = Len(repl) THEN TemplateError
  ELSE LET c == repl[i + 1] IN
    IF c = "g"
      THEN IF /\ i + 4 <= Len(repl)
              /\ repl[i + 2] = "<" /\ repl[i + 3] = "0" /\ repl[i + 4] = ">"
             THEN LET r == expand_template(repl, i + 5, m)
                  IN  [ok |-> r.ok, text |-> m \o r.text]
             ELSE TemplateError
    ELSE IF c \in DigitChars
      THEN IF c = "0"
             THEN LET r == expand_template(repl, i + 2, m)
                  IN  [ok |-> r.ok, text |-> << "^@" >> \o r.text]
             ELSE TemplateError
    ELSE LET r   == expand_template(repl, i + 2, m)
             lit == IF c = "\\" THEN << "\\" >>
                    ELSE IF c \in TemplateEscapes THEN << EscapeChar(c) >>
                    ELSE << "\\", c >>
         IN  [ok |-> r.ok, text |-> lit \o r.text]

\* re.sub(match_regex, replacement, string, count) for the literal pattern
\* re.escape(token) and an already expanded replacement: leftmost
\* non-overlapping occurrences, count = 0 meaning all of them
RECURSIVE sub_literal(_, _, _, _)
sub_literal(token, text, string, count) ==
  IF string = << >> THEN << >>
  ELSE IF StartsWith(string, token)
    THEN IF count = 1
           THEN text \o SubSeq(string, Len(token) + 1, Len(string))
           ELSE text \o sub_literal(token, text,
                                    SubSeq(string, Len(token) + 1, Len(string)),
                                    count)
    ELSE << Head(string) >> \o sub_literal(token, text, Tail(string), count)

\* the offsets, in the buffer that re.sub returns for a string that begins
\* at offset at, of the texts it puts in place of the occurrences
RECURSIVE sub_offsets(_, _, _, _)
sub_offsets(token, text, string, at) ==
  IF string = << >> THEN {}
  ELSE IF StartsWith(string, token)
    THEN {at} \cup sub_offsets(token, text,
                               SubSeq(string, Len(token) + 1, Len(string)),
                               at + Len(text))
    ELSE sub_offsets(token, text, Tail(string), at + 1)

\* re.sub as called at lines 216 and 224
re_sub(token, replacement, string, count) ==
  LET t == expand_template(replacement, 1, token)
  IN  IF t.ok
        THEN [ok |-> TRUE, text |-> sub_literal(token, t.text, string, count),
              inserted |-> t.text]
        ELSE [ok |-> FALSE, text |-> << >>, inserted |-> << >>]

\* ------------------------------------------------------------------------
\* CorporaFile (module _corpus): the three dictionary tiers.
\*   natural  : the natural-language wordlist (tier 1)
\*   keywords : the global programming-keyword list (tier 2)
\*   filetype : extension -> the keyword list of that file type (tier 3)
\* ------------------------------------------------------------------------
Extensions == {"c", "py"}

known_in(tier, word) == \E e \in tier : lower(e) = lower(word)

\* dicts.match(word, filename)
match(dicts, word, ext) ==
  \/ known_in(dicts.natural, word)
  \/ known_in(dicts.keywords, word)
  \/ known_in(dicts.filetype[ext], word)

\* dicts.add_filetype(word, filename)
add_filetype(dicts, word, ext) ==
  [dicts EXCEPT !.filetype[ext] = @ \cup {word}]

\* dicts.add_natural(word)
add_natural(dicts, word) ==
  [dicts EXCEPT !.keywords = @ \cup {word}]

\* ------------------------------------------------------------------------
\* State
\* ------------------------------------------------------------------------
VARIABLES
  source_filenames,     \* spell_check: the files to check, in order
  disk,                 \* file name -> bytes on disk
  dicts,                \* the CorporaFile
  ignores,              \* spell_check: the session ignore set
  pc,                   \* position of the run
  fidx,                 \* spell_check: index of the file of the for loop
  filename,             \* spell_check_file: the file being checked
  source_text,          \* spell_check_file: the bytes read
  data,                 \* spell_check_file: the buffer
  pos,                  \* spell_check_file: the scan offset
  match_desc,           \* the MatchDescriptor of the escalated token
  unmatched_subtokens,  \* the sub-words reported with the escalation
  ch,                   \* handle_failed_check: the key that asked for a replacement
  add_i,                \* handle_add: index of the sub-word being prompted for
  last,                 \* the last return of spell_check_token for this file
  received,             \* the last operator input for this file and its prompt
  log,                  \* the files the run is through with, in order
  last_file,            \* what became of the last file that was scanned
  nesc,                 \* escalations of the file being checked
  ignored_all,          \* lower-cased tokens the operator answered 'I' for
  nrepl,                \* replacements made in the run
  file_nrepl,           \* replacements made in the file being checked
  examined,             \* offsets of the tokens examined in this file, in order
  rewritten,            \* offsets at which the last replace-all pass of this
                        \*   file put its text, the first occurrence apart
  d_pc,                 \* decompose_token called on its own: position
  d_token,              \*   its argument
  d_subtokens           \*   its result

vars ==
  << source_filenames, disk, dicts, ignores, pc, fidx, filename, source_text,
     data, pos, match_desc, unmatched_subtokens, ch, add_i, last, received,
     log, last_file, nesc, ignored_all, nrepl, file_nrepl, examined,
     rewritten, d_pc, d_token, d_subtokens >>

run_vars ==
  << source_filenames, disk, dicts, ignores, pc, fidx, filename, source_text,
     data, pos, match_desc, unmatched_subtokens, ch, add_i, last, received,
     log, last_file, nesc, ignored_all, nrepl, file_nrepl, examined,
     rewritten >>

decompose_vars == << d_pc, d_token, d_subtokens >>

scan_ghost == << file_nrepl, examined, rewritten >>

\* ------------------------------------------------------------------------
\* Inputs of the run
\* ------------------------------------------------------------------------
WordFile == "word.c"
IntFile == "int.py"

FileNames == {WordFile, IntFile}

\* getName 0xdead\ngetName
WordText ==
  << "g", "e", "t", "N", "a", "m", "e", " ", "0", "x", "d", "e", "a", "d", "\n",
     "g", "e", "t", "N", "a", "m", "e" >>

\* int my_var_XYZ = 0x10;
IntText ==
  << "i", "n", "t", " ", "m", "y", "_", "v", "a", "r", "_", "X", "Y", "Z",
     " ", "=", " ", "0", "x", "1", "0", ";" >>

\* a file of seven lines, one of them ended by CR LF, with a token of
\* three sub-words on its fourth line, a token at the start of its first
\* line and one inside its last
ContextFile == "context.c"

ListNameToken == << "l", "i", "s", "t", "N", "a", "m", "e" >>
NameListNameToken ==
  << "n", "a", "m", "e", "L", "i", "s", "t", "N", "a", "m", "e" >>

\* listName\n\nb\r\nnameListName\nc\n\nd listName
ContextText ==
  ListNameToken \o << "\n", "\n", "b", "\r", "\n" >> \o NameListNameToken
    \o << "\n", "c", "\n", "\n", "d", " " >> \o ListNameToken

DiskFiles == FileNames \cup {ContextFile}

InitialText(name) ==
  CASE name = WordFile -> WordText
    [] name = IntFile -> IntText
    [] name = ContextFile -> ContextText

\* the key of the file-type tier: the extension of the file name
extension(name) == IF name = IntFile THEN "py" ELSE "c"

NameWord == << "n", "a", "m", "e" >>
ListWord == << "l", "i", "s", "t" >>
GetNameWord == << "g", "e", "t", "n", "a", "m", "e" >>

EmptyDicts ==
  [natural |-> {}, keywords |-> {}, filetype |-> [e \in Extensions |-> {}]]

InitialDicts ==
  { EmptyDicts,
    [EmptyDicts EXCEPT !.natural = {NameWord}],
    [EmptyDicts EXCEPT !.filetype["c"] = {GetNameWord}] }

FileLists == UNION {[1..n -> FileNames] : n \in 1..MaxFiles}

AbortKeys == {CTRL_C, CTRL_D, CTRL_Z}
IgnoreKeys == {"i", "\r", "\n"}

\* keys of the escalation prompt that no branch handles
OtherKeys == {"x"}

GetNameToken == << "g", "e", "t", "N", "a", "m", "e" >>
SetNameToken == << "s", "e", "t", "N", "a", "m", "e" >>

\* lines the operator may type at the replacement-text prompt: nothing, the
\* text of the token itself, corrections, texts with a backslash, and a
\* control character
Replacements ==
  { << >>,
    GetNameToken,
    SetNameToken,
    << "\\", "n" >>,
    << "\\" >>,
    << CTRL_D >> }

NoInput == [prompt |-> "none", abort |-> FALSE, choice |-> "none"]

NoFile ==
  [name |-> "", source |-> << >>, final |-> << >>, write_back |-> FALSE,
   escalations |-> 0, replacements |-> 0, examined |-> << >>]

NoDesc ==
  [data |-> << >>, pos |-> 0, token |-> << >>, context |-> << >>,
   line_num |-> 0]

NoReturn ==
  [kind |-> "none", token |-> << >>, ofs |-> 0, replacement |-> << >>,
   in_data |-> << >>, out_data |-> << >>, out_pos |-> 0]

\* ------------------------------------------------------------------------
\* MatchDescriptor
\* ------------------------------------------------------------------------
\* __init__ leaves _context and _line_num at None.  None is the empty
\* sequence for the context and 0 for the line number: get_context computes
\* neither value, the context holds at least the line of the match and the
\* line number is at least 1
MatchDescriptor(text, m) ==
  [data |-> text, pos |-> m.start, token |-> Slice(text, m.start, m.end),
   context |-> << >>, line_num |-> 0]

get_token(md) == md.token
get_string(md) == md.data
get_ofs(md) == md.pos
\* a prefix that stops one byte before the match
get_prefix_short(md) ==
  Slice(md.data, 0, IF md.pos > 0 THEN md.pos - 1 ELSE 0)

get_prefix(md) == Slice(md.data, 0, md.pos)
get_remainder(md) == Slice(md.data, md.pos, Len(md.data))

\* data.split('\n') from byte i on, cur being the line read so far
RECURSIVE split_from(_, _, _)
split_from(s, i, cur) ==
  IF i > Len(s) THEN << cur >>
  ELSE IF s[i] = "\n" THEN << cur >> \o split_from(s, i + 1, << >>)
  ELSE split_from(s, i + 1, Append(cur, s[i]))

split_lines(s) == split_from(s, 1, << >>)

\* lines 101-106: offsets[i], the byte offset of the start of lines[i]
\* (i is the index of Python, from 0)
RECURSIVE line_offset(_, _)
line_offset(lines, i) ==
  IF i = 0 THEN 0
  ELSE line_offset(lines, i - 1) + Len(lines[i]) + 1

\* lines 109-114 with a first line that starts at or after the match
compute_line_num_at_or_after(lines, p) ==
  LET later == {i \in 0..(Len(lines) - 1) : line_offset(lines, i) >= p}
  IN  IF later /= {} THEN CHOOSE i \in later : \A j \in later : i <= j
      ELSE Len(lines)

\* lines 109-114: the index of the first line that starts after the match,
\* and the number of lines when there is none
compute_line_num(lines, p) ==
  LET later == {i \in 0..(Len(lines) - 1) : line_offset(lines, i) > p}
  IN  IF later /= {} THEN CHOOSE i \in later : \A j \in later : i <= j
      ELSE Len(lines)

\* line.strip('\r\n'): the line without the carriage returns and newlines
\* at its two ends
RECURSIVE strip(_)
strip(line) ==
  IF line = << >> THEN << >>
  ELSE IF Head(line) \in {"\r", "\n"} THEN strip(Tail(line))
  ELSE IF line[Len(line)] \in {"\r", "\n"}
    THEN strip(SubSeq(line, 1, Len(line) - 1))
  ELSE line

\* lines 117-118: the pairs (i+1, stripped line) of the lines with
\* i+1 - line_num in range(-CONTEXT_SIZE/2, CONTEXT_SIZE/2 + 1), from line
\* i+1 = n on
RECURSIVE context_from(_, _, _)
context_from(lines, line_num, n) ==
  IF n > Len(lines) THEN << >>
  ELSE (IF (n - line_num) \in
             ((-CONTEXT_SIZE) \div 2)..(CONTEXT_SIZE \div 2)
          THEN << << n, strip(lines[n]) >> >>
          ELSE << >>)
       \o context_from(lines, line_num, n + 1)

\* lines 91-119: the descriptor after get_context(); the call returns its
\* context field.  A context computed before is returned as it is
get_context(md) ==
  IF md.context /= << >> THEN md
  ELSE LET lines == split_lines(md.data)
           n == compute_line_num(lines, md.pos)
       IN  [md EXCEPT !.line_num = n,
                      !.context = context_from(lines, n, 1)]

\* lines 121-125: the descriptor after get_line_num(); the call returns
\* its line_num field
get_line_num(md) == IF md.line_num = 0 THEN get_context(md) ELSE md

\* ------------------------------------------------------------------------
\* spell_check_token: the decision
\* ------------------------------------------------------------------------
\* line 251, (token.lower not in ignores): token.lower is the bound method,
\* not its result, and no method is a member of a set of strings
token_lower_not_in_ignores(token, ign) == TRUE

\* lines 253-255 without the length test
failed_subtokens_any_length(token, ext, dct, ign) ==
  SelectSeq(decompose_token(token),
            LAMBDA st : ~match(dct, token, ext) /\ st \notin ign)

\* lines 253-255
failed_subtokens(token, ext, dct, ign) ==
  SelectSeq(decompose_token(token),
            LAMBDA st : /\ Len(st) > LEN_THRESHOLD
                        /\ ~match(dct, token, ext)
                        /\ st \notin ign)

\* lines 251-257: the sub-words to report, << >> when the token is accepted
check_token(token, ext, dct, ign) ==
  IF token_lower_not_in_ignores(token, ign) /\ ~hex_regex_match(token)
    THEN make_unique(failed_subtokens(token, ext, dct, ign))
    ELSE << >>

\* a test of line 288 that always writes
modified_always(buf, original) == TRUE

\* line 288
modified(buf, original) == buf /= original

\* ------------------------------------------------------------------------
\* Initial states
\* ------------------------------------------------------------------------
RunIdle ==
  /\ disk = [n \in DiskFiles |-> InitialText(n)]
  /\ ignores = {}
  /\ fidx = 1
  /\ filename = ""
  /\ source_text = << >>
  /\ data = << >>
  /\ pos = 0
  /\ match_desc = NoDesc
  /\ unmatched_subtokens = << >>
  /\ ch = ""
  /\ add_i = 0
  /\ last = NoReturn
  /\ received = NoInput
  /\ log = << >>
  /\ last_file = NoFile
  /\ nesc = 0
  /\ ignored_all = {}
  /\ nrepl = 0
  /\ file_nrepl = 0
  /\ examined = << >>
  /\ rewritten = {}

\* spell_check(source_filenames) entered: ignores = set(), the for loop
\* about to take its first file
Init ==
  /\ source_filenames \in FileLists
  /\ dicts \in InitialDicts
  /\ pc = "next"
  /\ RunIdle
  /\ d_pc = "idle"
  /\ d_token = << >>
  /\ d_subtokens = << >>

\* spell_check([ContextFile]) entered
InitContext ==
  /\ source_filenames = << ContextFile >>
  /\ dicts \in InitialDicts
  /\ pc = "next"
  /\ RunIdle
  /\ d_pc = "idle"
  /\ d_token = << >>
  /\ d_subtokens = << >>

\* ------------------------------------------------------------------------
\* spell_check / spell_check_file
\* ------------------------------------------------------------------------
prompt_vars == << match_desc, unmatched_subtokens, ch, add_i >>

\* lines 383-384 and 270-280: the next file is read
OpenFile ==
  /\ pc = "next"
  /\ fidx <= Len(source_filenames)
  /\ filename' = source_filenames[fidx]
  /\ source_text' = disk[source_filenames[fidx]]
  /\ data' = disk[source_filenames[fidx]]
  /\ pos' = 0
  /\ nesc' = 0
  /\ last' = NoReturn
  /\ received' = NoInput
  /\ pc' = "scan"
  /\ UNCHANGED << source_filenames, disk, dicts, ignores, fidx, prompt_vars,
                  log, last_file, ignored_all, nrepl, decompose_vars >>
  /\ file_nrepl' = 0
  /\ examined' = << >>
  /\ rewritten' = {}

\* a read failure that is reported and then ends the run
ReadErrorEndsRun ==
  /\ pc = "next"
  /\ fidx <= Len(source_filenames)
  /\ log' = Append(log, [name |-> source_filenames[fidx], result |-> "read_error"])
  /\ pc' = "crashed"
  /\ UNCHANGED << source_filenames, disk, dicts, ignores, fidx, filename,
                  source_text, data, pos, prompt_vars, last, received,
                  last_file, nesc, ignored_all, nrepl, decompose_vars, scan_ghost >>

\* lines 271-277: the read raises IOError, the file is skipped
ReadError ==
  /\ pc = "next"
  /\ fidx <= Len(source_filenames)
  /\ log' = Append(log, [name |-> source_filenames[fidx], result |-> "read_error"])
  /\ fidx' = fidx + 1
  /\ UNCHANGED << source_filenames, disk, dicts, ignores, pc, filename,
                  source_text, data, pos, prompt_vars, last, received,
                  last_file, nesc, ignored_all, nrepl, decompose_vars, scan_ghost >>

\* lines 383-384: the for loop is exhausted
EndRun ==
  /\ pc = "next"
  /\ fidx > Len(source_filenames)
  /\ pc' = "done"
  /\ UNCHANGED << source_filenames, disk, dicts, ignores, fidx, filename,
                  source_text, data, pos, prompt_vars, last, received, log,
                  last_file, nesc, ignored_all, nrepl, decompose_vars, scan_ghost >>

\* write_back: the branch of lines 289-294 was taken
file_record(write_back) ==
  [name |-> filename, source |-> source_text, final |-> data,
   write_back |-> write_back, escalations |-> nesc,
   replacements |-> file_nrepl, examined |-> examined]

file_done == Append(log, [name |-> filename, result |-> "scanned"])

\* lines 282-284 and 287-294: no further token; the buffer is written back
\* when it was modified.  outcome: the write succeeds ("ok"), write() raises
\* IOError after open(.., 'wb') has truncated the file ("write_error"), or
\* open() itself raises IOError, which nothing catches ("open_error")
FinishFile(outcome) ==
  /\ pc = "scan"
  /\ ~token_regex_search(data, pos).found
  /\ IF modified(data, source_text)
       THEN CASE outcome = "ok" ->
                   /\ disk' = [disk EXCEPT ![filename] = data]
                   /\ last_file' = file_record(TRUE)
                   /\ log' = file_done
                   /\ fidx' = fidx + 1
                   /\ pc' = "next"
              [] outcome = "write_error" ->
                   /\ disk' = [disk EXCEPT ![filename] = << >>]
                   /\ last_file' = file_record(TRUE)
                   /\ log' = file_done
                   /\ fidx' = fidx + 1
                   /\ pc' = "next"
              [] outcome = "open_error" ->
                   /\ last_file' = file_record(TRUE)
                   /\ pc' = "crashed"
                   /\ UNCHANGED << disk, log, fidx >>
       ELSE /\ outcome = "ok"
            /\ last_file' = file_record(FALSE)
            /\ log' = file_done
            /\ fidx' = fidx + 1
            /\ pc' = "next"
            /\ UNCHANGED disk
  /\ UNCHANGED << source_filenames, dicts, ignores, filename, source_text,
                  data, pos, prompt_vars, last, received, nesc, ignored_all,
                  nrepl, decompose_vars, scan_ghost >>

\* a default return whose resume offset is the start of the token
default_return_at_token(kind, md) ==
  [kind |-> kind, token |-> get_token(md), ofs |-> get_ofs(md),
   replacement |-> << >>, in_data |-> get_string(md),
   out_data |-> get_string(md), out_pos |-> get_ofs(md)]

\* what spell_check_token returns when the text is unchanged (lines 235, 259)
default_return(kind, md) ==
  [kind |-> kind, token |-> get_token(md), ofs |-> get_ofs(md),
   replacement |-> << >>, in_data |-> get_string(md),
   out_data |-> get_string(md),
   out_pos |-> get_ofs(md) + Len(get_token(md))]

\* lines 282-285 with 250-259: the next token passes the check
AcceptToken ==
  /\ pc = "scan"
  /\ LET m == token_regex_search(data, pos) IN
     /\ m.found
     /\ LET md == MatchDescriptor(data, m) IN
        /\ check_token(get_token(md), extension(filename), dicts, ignores) = << >>
        /\ last' = default_return("accept", md)
        /\ examined' = Append(examined, get_ofs(md))
        /\ data' = get_string(md)
        /\ pos' = get_ofs(md) + Len(get_token(md))
  /\ UNCHANGED << source_filenames, disk, dicts, ignores, pc, fidx, filename,
                  source_text, prompt_vars, received, log, last_file, nesc, ignored_all,
                  nrepl, decompose_vars, file_nrepl, rewritten >>

\* lines 282-285, 250-258 and 194-201: the next token fails the check and
\* handle_failed_check prompts the operator
Escalate ==
  /\ pc = "scan"
  /\ LET m == token_regex_search(data, pos) IN
     /\ m.found
     /\ LET md == MatchDescriptor(data, m)
            um == check_token(get_token(md), extension(filename), dicts, ignores)
        IN  /\ um /= << >>
            /\ match_desc' = get_line_num(md)
            /\ unmatched_subtokens' = um
            /\ examined' = Append(examined, get_ofs(md))
  /\ nesc' = nesc + 1
  /\ pc' = "prompt"
  /\ UNCHANGED << source_filenames, disk, dicts, ignores, fidx, filename,
                  source_text, data, pos, ch, add_i, last, received, log, last_file,
                  ignored_all, nrepl, decompose_vars, file_nrepl, rewritten >>

\* ------------------------------------------------------------------------
\* handle_failed_check
\* ------------------------------------------------------------------------
\* line 235 after a break: the text is unchanged, scanning resumes after
\* the token
ReturnDefault(kind) ==
  /\ last' = default_return(kind, match_desc)
  /\ data' = get_string(match_desc)
  /\ pos' = get_ofs(match_desc) + Len(get_token(match_desc))
  /\ match_desc' = NoDesc
  /\ unmatched_subtokens' = << >>
  /\ ch' = ""
  /\ add_i' = 0
  /\ pc' = "scan"

\* lines 202-204: sys.exit(1)
AbortAtPrompt(key) ==
  /\ pc = "prompt"
  /\ key \in AbortKeys
  /\ received' = [prompt |-> "escalation", abort |-> TRUE,
                  choice |-> "abort"]
  /\ pc' = "aborted"
  /\ UNCHANGED << source_filenames, disk, dicts, ignores, fidx, filename,
                  source_text, data, pos, prompt_vars, last, log, last_file, nesc,
                  ignored_all, nrepl, decompose_vars, scan_ghost >>

\* lines 205-206
IgnoreOnce(key) ==
  /\ pc = "prompt"
  /\ key \in IgnoreKeys
  /\ received' = [prompt |-> "escalation", abort |-> FALSE,
                  choice |-> "ignore"]
  /\ ReturnDefault("i")
  /\ UNCHANGED << source_filenames, disk, dicts, ignores, fidx, filename,
                  source_text, log, last_file, nesc, ignored_all, nrepl, decompose_vars, scan_ghost >>

\* lines 207-209
IgnoreAll ==
  /\ pc = "prompt"
  /\ received' = [prompt |-> "escalation", abort |-> FALSE,
                  choice |-> "ignore_all"]
  /\ ignores' = ignores \cup {lower(get_token(match_desc))}
  /\ ignored_all' = ignored_all \cup {lower(get_token(match_desc))}
  /\ ReturnDefault("I")
  /\ UNCHANGED << source_filenames, disk, dicts, fidx, filename, source_text,
                  log, last_file, nesc, nrepl, decompose_vars, scan_ghost >>

\* lines 210-211 and 218-219: 'r' or 'R', raw_input prompts for the text
AskReplacement(key) ==
  /\ pc = "prompt"
  /\ key \in {"r", "R"}
  /\ received' = [prompt |-> "escalation", abort |-> FALSE,
                  choice |-> IF key = "r" THEN "replace" ELSE "replace_all"]
  /\ ch' = key
  /\ pc' = "replacement"
  /\ UNCHANGED << source_filenames, disk, dicts, ignores, fidx, filename,
                  source_text, data, pos, match_desc, unmatched_subtokens,
                  add_i, last, log, last_file, nesc, ignored_all, nrepl, decompose_vars, scan_ghost >>

\* lines 211-217 and 219-225: raw_input returns a line.  No line is
\* compared with the abort keys: a control character that reaches the
\* program as text of the line is replacement text like any other
ReplacementText(replacement) ==
  /\ pc = "replacement"
  /\ replacement \in Replacements
  /\ received' = [prompt |-> "replacement",
                  abort |-> \E k \in AbortKeys : replacement = << k >>,
                  choice |-> "none"]
  /\ IF replacement = << >>
       THEN /\ ReturnDefault("cancel")
            /\ UNCHANGED << ignores, nrepl, file_nrepl, rewritten >>
       ELSE /\ nrepl < MaxReplacements
            /\ nrepl' = nrepl + 1
            /\ file_nrepl' = file_nrepl + 1
            /\ ignores' = ignores \cup {lower(replacement)}
            /\ LET tail == re_sub(get_token(match_desc), replacement,
                                  get_remainder(match_desc),
                                  IF ch = "r" THEN 1 ELSE 0)
               IN  IF tail.ok
                     THEN /\ data' = get_prefix(match_desc) \o tail.text
                          /\ pos' = get_ofs(match_desc) + Len(replacement)
                          /\ last' =
                               [kind |-> ch, token |-> get_token(match_desc),
                                ofs |-> get_ofs(match_desc),
                                replacement |-> replacement,
                                in_data |-> get_string(match_desc),
                                out_data |-> get_prefix(match_desc) \o tail.text,
                                out_pos |-> get_ofs(match_desc) + Len(replacement)]
                          /\ rewritten' =
                               IF ch = "R"
                                 THEN sub_offsets(get_token(match_desc),
                                                  tail.inserted,
                                                  get_remainder(match_desc),
                                                  get_ofs(match_desc))
                                        \ {get_ofs(match_desc)}
                                 ELSE {}
                          /\ match_desc' = NoDesc
                          /\ unmatched_subtokens' = << >>
                          /\ ch' = ""
                          /\ add_i' = 0
                          /\ pc' = "scan"
                     ELSE \* re.sub raises sre_constants.error, uncaught
                          /\ pc' = "crashed"
                          /\ UNCHANGED << data, pos, last, prompt_vars,
                                          rewritten >>
  /\ UNCHANGED examined
  /\ UNCHANGED << source_filenames, disk, dicts, fidx, filename, source_text,
                  log, last_file, nesc, ignored_all, decompose_vars >>

\* lines 211 and 219: raw_input raises KeyboardInterrupt or EOFError,
\* which nothing catches
ReplacementInterrupted ==
  /\ pc = "replacement"
  /\ received' = [prompt |-> "replacement", abort |-> TRUE,
                  choice |-> "none"]
  /\ pc' = "crashed"
  /\ UNCHANGED << source_filenames, disk, dicts, ignores, fidx, filename,
                  source_text, data, pos, prompt_vars, last, log, last_file, nesc,
                  ignored_all, nrepl, decompose_vars, scan_ghost >>

\* lines 226-227: 'a', handle_add prompts for the first sub-word
AskAdd ==
  /\ pc = "prompt"
  /\ received' = [prompt |-> "escalation", abort |-> FALSE,
                  choice |-> "add"]
  /\ add_i' = 1
  /\ pc' = "add"
  /\ UNCHANGED << source_filenames, disk, dicts, ignores, fidx, filename,
                  source_text, data, pos, match_desc, unmatched_subtokens, ch,
                  last, log, last_file, nesc, ignored_all, nrepl, decompose_vars, scan_ghost >>

\* a 'c' or an unknown key that leaves the loop like 'i'
PromptAgainBreaks(key) ==
  /\ pc = "prompt"
  /\ key \in {"c"} \cup OtherKeys
  /\ received' = [prompt |-> "escalation", abort |-> FALSE,
                  choice |-> IF key = "c" THEN "context" ELSE "other"]
  /\ ReturnDefault("i")
  /\ UNCHANGED << source_filenames, disk, dicts, ignores, fidx, filename,
                  source_text, log, last_file, nesc, ignored_all, nrepl,
                  decompose_vars, scan_ghost >>

\* lines 229-232 ('c': the context is printed) and the fall-through of any
\* other key: the while loop prompts again
PromptAgain(key) ==
  /\ pc = "prompt"
  /\ key \in {"c"} \cup OtherKeys
  /\ received' = [prompt |-> "escalation", abort |-> FALSE,
                  choice |-> IF key = "c" THEN "context" ELSE "other"]
  /\ match_desc' = IF key = "c" THEN get_context(match_desc) ELSE match_desc
  /\ UNCHANGED << source_filenames, disk, dicts, ignores, pc, fidx, filename,
                  source_text, data, pos, unmatched_subtokens, ch, add_i,
                  last, log, last_file, nesc, ignored_all, nrepl,
                  decompose_vars, scan_ghost >>

\* ------------------------------------------------------------------------
\* handle_add
\* ------------------------------------------------------------------------
\* lines 168-170: sys.exit(1)
AbortAtAdd(key) ==
  /\ pc = "add"
  /\ key \in AbortKeys
  /\ received' = [prompt |-> "subword", abort |-> TRUE,
                  choice |-> "none"]
  /\ pc' = "aborted"
  /\ UNCHANGED << source_filenames, disk, dicts, ignores, fidx, filename,
                  source_text, data, pos, prompt_vars, last, log, last_file, nesc,
                  ignored_all, nrepl, decompose_vars, scan_ghost >>

\* lines 171-178: 'i', 'p' or 'n' ends the prompt of the sub-word; after the
\* last sub-word handle_add returns and handle_failed_check breaks (228)
AddKey(key) ==
  /\ pc = "add"
  /\ key \in IgnoreKeys \cup {"p", "n"}
  /\ received' = [prompt |-> "subword", abort |-> FALSE,
                  choice |-> "none"]
  /\ dicts' =
       IF key = "p"
         THEN add_filetype(dicts, unmatched_subtokens[add_i], extension(filename))
       ELSE IF key = "n"
         THEN add_natural(dicts, unmatched_subtokens[add_i])
       ELSE dicts
  /\ IF add_i < Len(unmatched_subtokens)
       THEN /\ add_i' = add_i + 1
            /\ UNCHANGED << pc, data, pos, last, match_desc,
                            unmatched_subtokens, ch >>
       ELSE ReturnDefault("a")
  /\ UNCHANGED << source_filenames, disk, ignores, fidx, filename, source_text,
                  log, last_file, nesc, ignored_all, nrepl, decompose_vars, scan_ghost >>

\* line 162: any other key, the while loop prompts again for the sub-word
AddPromptAgain(key) ==
  /\ pc = "add"
  /\ key \in OtherKeys
  /\ received' = [prompt |-> "subword", abort |-> FALSE,
                  choice |-> "none"]
  /\ UNCHANGED << source_filenames, disk, dicts, ignores, pc, fidx, filename,
                  source_text, data, pos, prompt_vars, last, log, last_file, nesc,
                  ignored_all, nrepl, decompose_vars, scan_ghost >>

Next ==
  \/ OpenFile
  \/ ReadError
  \/ EndRun
  \/ \E outcome \in {"ok", "write_error", "open_error"} : FinishFile(outcome)
  \/ AcceptToken
  \/ Escalate
  \/ \E key \in AbortKeys : AbortAtPrompt(key)
  \/ \E key \in IgnoreKeys : IgnoreOnce(key)
  \/ IgnoreAll
  \/ \E key \in {"r", "R"} : AskReplacement(key)
  \/ \E replacement \in Replacements : ReplacementText(replacement)
  \/ ReplacementInterrupted
  \/ AskAdd
  \/ \E key \in {"c"} \cup OtherKeys : PromptAgain(key)
  \/ \E key \in AbortKeys : AbortAtAdd(key)
  \/ \E key \in IgnoreKeys \cup {"p", "n"} : AddKey(key)
  \/ \E key \in OtherKeys : AddPromptAgain(key)

Spec == Init /\ [][Next]_vars

\* the run on the file of seven lines alone
SpecContext == InitContext /\ [][Next]_vars

\* lines 281-285 and 288-294: the scan loop takes its next step, the
\* program being sequential
ScanStep ==
  \/ AcceptToken
  \/ Escalate
  \/ \E outcome \in {"ok", "write_error", "open_error"} : FinishFile(outcome)

\* lines 201-228: getch returns a key that ends the escalation prompt
PromptResolved ==
  \/ \E key \in AbortKeys : AbortAtPrompt(key)
  \/ \E key \in IgnoreKeys : IgnoreOnce(key)
  \/ IgnoreAll
  \/ \E key \in {"r", "R"} : AskReplacement(key)
  \/ AskAdd

\* lines 211 and 219: raw_input returns or raises
ReplacementRead ==
  \/ ReplacementInterrupted
  \/ \E replacement \in Replacements : ReplacementText(replacement)

\* lines 167-178: getch returns a key that ends the prompt of a sub-word
SubwordAnswered ==
  \/ \E key \in AbortKeys : AbortAtAdd(key)
  \/ \E key \in IgnoreKeys \cup {"p", "n"} : AddKey(key)

\* weak fairness of ScanStep, with the condition that enables it written
\* out: in the scan loop exactly one of its three steps can be taken, and
\* each of them changes the scan offset or leaves the loop
ScanStepFair == []<>(pc /= "scan") \/ []<><<ScanStep>>_vars

\* the run on the file of seven lines with an operator who ends every
\* prompt: the program takes its steps, and no prompt is answered for ever
\* with show-context or unknown keys
SpecContextFair ==
  /\ InitContext /\ [][Next]_vars
  /\ WF_vars(OpenFile)
  /\ ScanStepFair
  /\ WF_vars(PromptResolved)
  /\ WF_vars(ReplacementRead)
  /\ WF_vars(SubwordAnswered)

\* ------------------------------------------------------------------------
\* decompose_token called on its own
\* ------------------------------------------------------------------------
DecomposeAlphabet == {"a", "b", "B", "_", "2"}

FooToken == << "f", "o", "o" >>
MaxRetryCountToken ==
  << "m", "a", "x", "R", "e", "t", "r", "y", "C", "o", "u", "n", "t" >>
MaxRetryCountConstant ==
  << "M", "A", "X", "_", "R", "E", "T", "R", "Y", "_", "C", "O", "U", "N", "T" >>
V2ConfigToken == << "v", "2", "C", "o", "n", "f", "i", "g" >>
MixedToken ==
  << "M", "A", "X", "_", "r", "e", "t", "r", "y", "C", "o", "u", "n", "t" >>

DecomposeInputs ==
  UNION {[1..n -> DecomposeAlphabet] : n \in 1..MaxTokLen}
    \cup {FooToken, MaxRetryCountToken, MaxRetryCountConstant, V2ConfigToken,
          MixedToken}

InitDecompose ==
  /\ d_pc = "call"
  /\ d_token \in DecomposeInputs
  /\ d_subtokens = << >>
  /\ source_filenames = << >>
  /\ dicts = EmptyDicts
  /\ pc = "idle"
  /\ RunIdle

Decompose ==
  /\ d_pc = "call"
  /\ d_subtokens' = decompose_token(d_token)
  /\ d_pc' = "return"
  /\ UNCHANGED << d_token, run_vars >>

NextDecompose == Decompose

SpecDecompose == InitDecompose /\ [][NextDecompose]_vars

\* ========================================================================
\* Properties
\* ========================================================================
escalated == pc \in {"prompt", "replacement", "add"}

terminated == pc \in {"aborted", "crashed"}

\* C1: after the operator answers 'I' for a token, no later occurrence of
\* that token, in any letter case, is escalated again in the run.
C1_IgnoreAllSticky ==
  pc = "prompt" => lower(get_token(match_desc)) \notin ignored_all

\* C2: a token is escalated only if the whole token is in no keyword tier of
\* the file type and one of its sub-words longer than the threshold is
\* neither a natural-language word nor ignored; and every sub-word reported
\* as unmatched is absent from the natural-language wordlist.
C2_EscalatedOnlyIfUnknown ==
  pc = "prompt" =>
    LET token == get_token(match_desc)
        subs  == decompose_token(token)
    IN  /\ ~known_in(dicts.keywords, token)
        /\ ~known_in(dicts.filetype[extension(filename)], token)
        /\ \E k \in 1..Len(subs) :
             /\ Len(subs[k]) > LEN_THRESHOLD
             /\ ~known_in(dicts.natural, subs[k])
             /\ subs[k] \notin ignores
        /\ \A k \in 1..Len(unmatched_subtokens) :
             ~known_in(dicts.natural, unmatched_subtokens[k])

\* C3: replace-once at offset p returns buffer[0..p) + replacement +
\* buffer[p+len(token)..end) and the resume offset p + len(replacement).
C3_ReplaceOnceExact ==
  last.kind = "r" =>
    /\ last.out_data =
         Slice(last.in_data, 0, last.ofs) \o last.replacement
           \o Slice(last.in_data, last.ofs + Len(last.token), Len(last.in_data))
    /\ last.out_pos = last.ofs + Len(last.replacement)

\* the number of leftmost non-overlapping occurrences of token in string
RECURSIVE occurrences(_, _)
occurrences(token, string) ==
  IF Len(string) < Len(token) THEN 0
  ELSE IF StartsWith(string, token)
    THEN 1 + occurrences(token, SubSeq(string, Len(token) + 1, Len(string)))
    ELSE occurrences(token, Tail(string))

\* C4: replace-all at offset p changes the buffer length by
\* k * (len(replacement) - len(token)), k the number of occurrences of the
\* token text in buffer[p..end), and returns the resume offset
\* p + len(replacement).
C4_ReplaceAllLength ==
  last.kind = "R" =>
    /\ Len(last.out_data) - Len(last.in_data) =
         occurrences(last.token,
                     Slice(last.in_data, last.ofs, Len(last.in_data)))
           * (Len(last.replacement) - Len(last.token))
    /\ last.out_pos = last.ofs + Len(last.replacement)

\* C5: an abort control input received at any prompt (escalation, sub-word,
\* replacement text) terminates the run at once: the file being checked is
\* not written and no later file is processed.
C5_AbortTerminates == received.abort => terminated

\* C6: at the end of a file's scan the write-back is made exactly when the
\* final buffer differs from the bytes read; when it is not made, the bytes
\* on disk are the bytes read.
C6_WriteIffModified ==
  last_file.name /= "" =>
    /\ last_file.write_back <=> last_file.final /= last_file.source
    /\ ~last_file.write_back => disk[last_file.name] = last_file.source

\* a file came through a replacement with its text restored, unwritten
C6_Witness ==
  /\ Len(log) = 1
  /\ last_file.name = WordFile
  /\ nrepl = 1
  /\ ~last_file.write_back

\* ------------------------------------------------------------------------
\* Sub-words by boundary positions, stated on the token itself
\* ------------------------------------------------------------------------
IsLetter(c) == IsLowerChar(c) \/ IsUpperChar(c)

\* the fragment of position i: the maximal run of letters around it
fragment_first(s, i) ==
  CHOOSE a \in 1..i :
    /\ \A j \in a..i : IsLetter(s[j])
    /\ a = 1 \/ ~IsLetter(s[a - 1])

fragment_last(s, i) ==
  CHOOSE b \in i..Len(s) :
    /\ \A j \in i..b : IsLetter(s[j])
    /\ b = Len(s) \/ ~IsLetter(s[b + 1])

\* the all-caps rule taken over the whole token: it has a letter and all of
\* its letters are upper-case
constant_token(s) ==
  /\ \E j \in 1..Len(s) : IsLetter(s[j])
  /\ \A j \in 1..Len(s) : IsLetter(s[j]) => IsUpperChar(s[j])

\* the all-caps rule taken per fragment: the fragment of i is upper-case
constant_fragment(s, i) ==
  \A j \in fragment_first(s, i)..fragment_last(s, i) : IsUpperChar(s[j])

\* position i begins a sub-word: a letter that opens its fragment, or a
\* capital letter where the all-caps rule does not hold
begins_subword(s, i, per_fragment) ==
  /\ IsLetter(s[i])
  /\ \/ i = 1
     \/ ~IsLetter(s[i - 1])
     \/ /\ IsUpperChar(s[i])
        /\ ~(IF per_fragment THEN constant_fragment(s, i) ELSE constant_token(s))

\* the sub-word that begins at i: up to the next beginning or non-letter
subword_at(s, i, per_fragment) ==
  LET e == CHOOSE b \in i..fragment_last(s, i) :
             /\ \A j \in (i + 1)..b : ~begins_subword(s, j, per_fragment)
             /\ b = fragment_last(s, i) \/ begins_subword(s, b + 1, per_fragment)
  IN  lower(SubSeq(s, i, e))

RECURSIVE subwords_from(_, _, _)
subwords_from(s, i, per_fragment) ==
  IF i > Len(s) THEN << >>
  ELSE IF begins_subword(s, i, per_fragment)
    THEN << subword_at(s, i, per_fragment) >> \o subwords_from(s, i + 1, per_fragment)
    ELSE subwords_from(s, i + 1, per_fragment)

\* C7 (as claimed): decompose_token keeps a fragment whole when that
\* fragment is entirely upper-case and splits every other fragment at its
\* capital letters.
C7_AllCapsPerFragment ==
  d_pc = "return" => d_subtokens = subwords_from(d_token, 1, TRUE)

\* C7 (amended): decompose_token keeps the fragments whole when the whole
\* token, its underscores and digits removed, is entirely upper-case, and
\* otherwise splits every fragment, the upper-case ones included, at its
\* capital letters.
C7_AllCapsWholeToken ==
  d_pc = "return" => d_subtokens = subwords_from(d_token, 1, FALSE)

\* MAX_retryCount came back as m, a, x, retry, count
C7_Witness ==
  /\ d_pc = "return"
  /\ d_token = MixedToken
  /\ d_subtokens =
       << << "m" >>, << "a" >>, << "x" >>, << "r", "e", "t", "r", "y" >>,
          << "c", "o", "u", "n", "t" >> >>

MaxWord == << "m", "a", "x" >>
RetryWord == << "r", "e", "t", "r", "y" >>
CountWord == << "c", "o", "u", "n", "t" >>

\* C8: decompose_token gives foo for foo, max retry count for maxRetryCount
\* and for MAX_RETRY_COUNT, v config for v2Config, and nothing for a token
\* of digits and underscores only.
C8_Examples ==
  d_pc = "return" =>
    /\ d_token = FooToken => d_subtokens = << FooToken >>
    /\ d_token = MaxRetryCountToken =>
         d_subtokens = << MaxWord, RetryWord, CountWord >>
    /\ d_token = MaxRetryCountConstant =>
         d_subtokens = << MaxWord, RetryWord, CountWord >>
    /\ d_token = V2ConfigToken =>
         d_subtokens = << << "v" >>, << "c", "o", "n", "f", "i", "g" >> >>
    /\ (\A i \in 1..Len(d_token) : IsUsChar(d_token[i])) => d_subtokens = << >>

\* maxRetryCount has been decomposed
C8_Witness ==
  /\ d_pc = "return"
  /\ d_token = MaxRetryCountToken
  /\ Len(d_subtokens) = 3

\* C9: a token is escalated only if one of its sub-words is longer than the
\* threshold, and the scan of 'int my_var_XYZ = 0x10;' escalates nothing and
\* leaves the buffer as read.
C9_ShortSubwordsNeverEscalated ==
  /\ escalated =>
       \E k \in 1..Len(decompose_token(get_token(match_desc))) :
         Len(decompose_token(get_token(match_desc))[k]) > LEN_THRESHOLD
  /\ (filename /= "" /\ source_text = IntText) => nesc = 0 /\ data = IntText
  /\ last_file.source = IntText =>
       /\ last_file.escalations = 0
       /\ last_file.final = IntText
       /\ ~last_file.write_back

\* the scan of int my_var_XYZ = 0x10; ended, the dictionaries empty
C9_Witness ==
  /\ last_file.name = IntFile
  /\ last_file.source = IntText
  /\ last_file.escalations = 0
  /\ dicts = EmptyDicts

\* 0x followed by one or more hexadecimal digits and nothing else
is_hex_literal(t) ==
  /\ Len(t) >= 3
  /\ t[1] = "0"
  /\ t[2] = "x"
  /\ \A i \in 3..Len(t) : t[i] \in HexChars

\* C10: a hexadecimal literal is never escalated; it is accepted with the
\* buffer unchanged and the resume offset at its end.
C10_HexNeverEscalated ==
  /\ escalated => ~is_hex_literal(get_token(match_desc))
  /\ (last.kind /= "none" /\ is_hex_literal(last.token)) =>
       /\ last.kind = "accept"
       /\ last.out_data = last.in_data
       /\ last.out_pos = last.ofs + Len(last.token)

\* 0xdead was accepted with every dictionary empty
C10_Witness ==
  /\ last.kind = "accept"
  /\ last.token = << "0", "x", "d", "e", "a", "d" >>
  /\ dicts = EmptyDicts
  /\ ignores = {}

\* C11: a silent accept, ignore-once, ignore-all, add-to-dictionary and a
\* replacement cancelled by an empty text return the buffer they were given
\* and the offset just after the token; ignore-once and the cancel also
\* leave the session ignore set as it was.
C11_NonRewritingStep ==
  (last' /= last /\ last'.kind \in {"accept", "i", "I", "a", "cancel"}) =>
    /\ data' = data
    /\ last'.in_data = data
    /\ last'.out_data = data
    /\ pos' = last'.ofs + Len(last'.token)
    /\ last'.out_pos = last'.ofs + Len(last'.token)
    /\ Slice(data, last'.ofs, pos') = last'.token
    /\ last'.kind \in {"i", "cancel"} => ignores' = ignores

C11_NonRewriting == [][C11_NonRewritingStep]_vars

\* a replacement of the second getName was cancelled by an empty text
C11_Witness ==
  /\ last.kind = "cancel"
  /\ last.ofs = 15
  /\ data = WordText
  /\ pos = 22

\* the files the run is through with are the first files supplied, in
\* order, and the file being checked is the next one
C12_InOrder ==
  /\ pc /= "idle" => Len(log) = fidx - 1
  /\ \A i \in 1..Len(log) : log[i].name = source_filenames[i]
  /\ pc \in {"scan", "prompt", "replacement", "add"} =>
       filename = source_filenames[fidx]

C12_ReadErrorStep ==
  (Len(log') = Len(log) + 1 /\ log'[Len(log')].result = "read_error") =>
    /\ log'[Len(log')].name = source_filenames[fidx]
    /\ disk' = disk
    /\ ignores' = ignores
    /\ dicts' = dicts
    /\ fidx' = fidx + 1
    /\ pc' = "next"

\* C12: a file that cannot be read is skipped without a write and without a
\* change of the session ignore set, and the run goes on with the remaining
\* files in the order supplied.
C12_ReadFailureSkips == []C12_InOrder /\ [][C12_ReadErrorStep]_vars

\* the first file could not be read and the second was scanned, with an
\* escalation
C12_Witness ==
  /\ Len(log) = 2
  /\ log[1].result = "read_error"
  /\ log[2].result = "scanned"
  /\ last_file.escalations > 0

\* C13: an occurrence that a replace-all pass rewrote is not escalated when
\* the scan reaches it.
C13_RewrittenNotEscalated ==
  pc = "prompt" => get_ofs(match_desc) \notin rewritten

\* ------------------------------------------------------------------------
\* C14: every return of a per-token step, replace and replace-all included,
\* leaves the bytes before the offset of its token as they were: the first
\* p bytes of the returned buffer are the first p bytes of the buffer the
\* step was given, so an earlier occurrence of the token text stays
\* ------------------------------------------------------------------------
C14_PrefixStep ==
  (last' /= last /\ last'.kind /= "none") =>
    /\ last'.in_data = data
    /\ last'.out_data = data'
    /\ Len(data') >= last'.ofs
    /\ Slice(data', 0, last'.ofs) = Slice(data, 0, last'.ofs)

C14_PrefixUntouched == [][C14_PrefixStep]_vars

\* replace-all at the second getName rewrote it and kept the first one
C14_Witness ==
  /\ last.kind = "R"
  /\ last.ofs = 15
  /\ last.out_data /= last.in_data
  /\ Slice(last.in_data, 0, 7) = GetNameToken
  /\ Slice(last.out_data, 0, 7) = GetNameToken
  /\ data = last.out_data

\* ------------------------------------------------------------------------
\* C15: 'c' at the escalation prompt, and any key that is none of the
\* recognised ones, changes neither the buffer, the scan offset, the ignore
\* set, the dictionaries nor the files, and the prompt is shown again for
\* the same token; the prompt is left only by an ignore, ignore-all,
\* replace, replace-all, add or abort input
\* ------------------------------------------------------------------------
ResolvingChoices ==
  {"ignore", "ignore_all", "replace", "replace_all", "add", "abort"}

C15_PromptStep ==
  /\ (pc = "prompt" /\ received' /= received
        /\ received'.choice \in {"context", "other"}) =>
       /\ pc' = "prompt"
       /\ data' = data /\ pos' = pos
       /\ ignores' = ignores /\ dicts' = dicts /\ disk' = disk
       /\ get_token(match_desc') = get_token(match_desc)
       /\ get_ofs(match_desc') = get_ofs(match_desc)
       /\ get_string(match_desc') = get_string(match_desc)
       /\ unmatched_subtokens' = unmatched_subtokens
       /\ last' = last
  /\ (pc = "prompt" /\ pc' /= "prompt") =>
       /\ received'.prompt = "escalation"
       /\ received'.choice \in ResolvingChoices
  /\ (pc = "prompt" /\ pc' = "prompt" /\ received' /= received) =>
       received'.choice \in {"context", "other"}

C15_ShowContextNonTerminal == [][C15_PromptStep]_vars

\* the context of the second getName was asked for and the prompt for it is
\* up again
C15_Witness ==
  /\ pc = "prompt"
  /\ received.choice = "context"
  /\ get_token(match_desc) = GetNameToken
  /\ get_ofs(match_desc) = 15
  /\ pos = 14

\* ------------------------------------------------------------------------
\* C16: the sub-words handed to the operator have no duplicates and stand
\* in the order of their first occurrence among the failed sub-words of the
\* token; the add flow prompts for them one after the other from the first
\* to the last, each prompt ends with no change of the dictionaries, with
\* one add of its sub-word for the file type of the file (add_filetype) or
\* with one natural-language add of it (add_natural), and the flow ends
\* with the buffer unchanged and the scan offset just after the token
\* ------------------------------------------------------------------------
first_index(seq, x) ==
  CHOOSE k \in 1..Len(seq) : seq[k] = x /\ \A j \in 1..(k - 1) : seq[j] /= x

C16_UniqueInOrder ==
  /\ \A i, j \in 1..Len(unmatched_subtokens) :
       i /= j => unmatched_subtokens[i] /= unmatched_subtokens[j]
  /\ pc = "prompt" =>
       LET failed == failed_subtokens(get_token(match_desc),
                                      extension(filename), dicts, ignores)
       IN  /\ {unmatched_subtokens[i] : i \in 1..Len(unmatched_subtokens)}
                = {failed[k] : k \in 1..Len(failed)}
           /\ \A i, j \in 1..Len(unmatched_subtokens) :
                i < j => first_index(failed, unmatched_subtokens[i])
                           < first_index(failed, unmatched_subtokens[j])

C16_AddStep ==
  /\ (pc = "prompt" /\ pc' = "add") => (add_i' = 1 /\ dicts' = dicts)
  /\ (pc = "add" /\ received' /= received) =>
       LET word == unmatched_subtokens[add_i]
           ext == extension(filename)
           answered == (pc' = "scan" \/ add_i' /= add_i)
       IN  /\ add_i \in 1..Len(unmatched_subtokens)
           /\ \/ dicts' = dicts
              \/ (answered /\ dicts' = add_filetype(dicts, word, ext))
              \/ (answered /\ dicts' = add_natural(dicts, word))
           /\ pc' \in {"add", "scan", "aborted"}
           /\ pc' = "add" =>
                /\ add_i' \in {add_i, add_i + 1}
                /\ unmatched_subtokens' = unmatched_subtokens
                /\ match_desc' = match_desc
                /\ data' = data /\ pos' = pos
           /\ pc' = "scan" =>
                /\ add_i = Len(unmatched_subtokens)
                /\ last'.kind = "a"
                /\ data' = data
                /\ data' = get_string(match_desc)
                /\ pos' = get_ofs(match_desc) + Len(get_token(match_desc))
           /\ pc' = "aborted" => dicts' = dicts

newline_positions(s) == {i \in 1..Len(s) : s[i] = "\n"}

newlines_before(s, p) == Cardinality({i \in newline_positions(s) : i <= p})

number_of_lines(s) == Cardinality(newline_positions(s)) + 1

\* the position of the k-th newline of s; 0 for k = 0 and Len(s) + 1 past
\* the last one
newline_at(s, k) ==
  IF k = 0 THEN 0
  ELSE IF k > Cardinality(newline_positions(s)) THEN Len(s) + 1
  ELSE CHOOSE i \in newline_positions(s) :
         Cardinality({j \in newline_positions(s) : j <= i}) = k

\* line n of s: the bytes between newline n-1 and newline n, from the
\* first to the last byte that is no carriage return
line_text(s, n) ==
  LET kept == {i \in (newline_at(s, n - 1) + 1)..(newline_at(s, n) - 1) :
                 s[i] /= "\r"}
  IN  IF kept = {} THEN << >>
      ELSE SubSeq(s, CHOOSE i \in kept : \A j \in kept : i <= j,
                     CHOOSE i \in kept : \A j \in kept : i >= j)

context_lines(s, n) ==
  {k \in 1..number_of_lines(s) : k - n \in -2..2}

C17_ContextOfMatch ==
  pc \in {"prompt", "replacement", "add"} =>
    LET s == get_string(match_desc)
        n == 1 + newlines_before(s, get_ofs(match_desc))
        ctx == match_desc.context
    IN  /\ match_desc.line_num = n
        /\ n \in 1..number_of_lines(s)
        /\ Len(ctx) = Cardinality(context_lines(s, n))
        /\ \A k \in 1..Len(ctx) :
             /\ ctx[k][1] \in context_lines(s, n)
             /\ ctx[k][2] = line_text(s, ctx[k][1])
             /\ k > 1 => ctx[k][1] > ctx[k - 1][1]

C17_MemoStep ==
  (pc = "prompt" /\ pc' = "prompt") => match_desc' = match_desc

C17_MatchContext == []C17_ContextOfMatch /\ [][C17_MemoStep]_vars

\* the context of nameListName on line 4 of seven was asked for: lines 2
\* to 6, line 3 without its carriage return
C17_Witness ==
  /\ pc = "prompt"
  /\ received.choice = "context"
  /\ get_token(match_desc) = NameListNameToken
  /\ get_ofs(match_desc) = 13
  /\ match_desc.line_num = 4
  /\ match_desc.context =
       << << 2, << >> >>, << 3, << "b" >> >>, << 4, NameListNameToken >>,
          << 5, << "c" >> >>, << 6, << >> >> >>

\* ------------------------------------------------------------------------
\* C18: every per-token step returns a resume offset that is greater than
\* the start of the token it examined and at most the length of the buffer
\* it returns, and the byte at the resume offset, if there is one, is no
\* word character; so every token examined is a maximal run of word
\* characters of the buffer it is found in
\* ------------------------------------------------------------------------
C18_ScanProgress ==
  /\ last.kind /= "none" =>
       /\ last.out_pos > last.ofs
       /\ last.out_pos <= Len(last.out_data)
       /\ last.out_pos < Len(last.out_data) =>
            ~IsWordChar(last.out_data[last.out_pos + 1])
  /\ pc \in {"scan", "prompt", "replacement", "add"} => pos <= Len(data)
  /\ pc \in {"prompt", "replacement", "add"} =>
       LET s == get_string(match_desc)
           p == get_ofs(match_desc)
           e == p + Len(get_token(match_desc))
       IN  /\ p > 0 => ~IsWordChar(s[p])
           /\ e < Len(s) => ~IsWordChar(s[e + 1])

\* ------------------------------------------------------------------------
\* C19: with every prompt ended by a resolving input and finitely many
\* replacements, the scan of a file ends.
\* As claimed: it ends with the file finished.
\* ------------------------------------------------------------------------
scanning == pc \in {"scan", "prompt", "replacement", "add"}

token_starts(s) ==
  {i \in 0..(Len(s) - 1) :
     IsWordChar(s[i + 1]) /\ (i = 0 \/ ~IsWordChar(s[i]))}

\* the tokens are examined from left to right, none twice; a file finished
\* without a replacement had each token of its text examined
C19_LeftToRight ==
  /\ \A i, j \in 1..Len(examined) : i < j => examined[i] < examined[j]
  /\ (last_file.name /= "" /\ last_file.replacements = 0) =>
       /\ {last_file.examined[i] : i \in 1..Len(last_file.examined)}
            = token_starts(last_file.source)
       /\ Len(last_file.examined) = Cardinality(token_starts(last_file.source))
       /\ \A i, j \in 1..Len(last_file.examined) :
            i < j => last_file.examined[i] < last_file.examined[j]

letters_of(token) ==
  SelectSeq(token, LAMBDA c : c \notin DigitChars /\ c /= "_")

C20_NoLetterLostOrInvented ==
  d_pc = "return" =>
    /\ \A k \in 1..Len(d_subtokens) :
         /\ d_subtokens[k] /= << >>
         /\ \A i \in 1..Len(d_subtokens[k]) :
              \E n \in 1..26 : d_subtokens[k][i] = LowerLetters[n]
    /\ join(d_subtokens) = lower(letters_of(d_token))

\* v2Config was decomposed into v and config: the digit is gone and the
\* capital is lowered
C20_Witness ==
  /\ d_pc = "return"
  /\ d_token = V2ConfigToken
  /\ d_subtokens = << << "v" >>, << "c", "o", "n", "f", "i", "g" >> >>

====
